---- MODULE Spec2Model ----
(***************************************************************************)
(* Offline synchronisation engine of the coffee log (CoffeeLog.tsx with    *)
(* data/storage.ts, data/api.ts and the entry handlers of main.go).        *)
(*                                                                         *)
(* One event loop runs the user handlers and any number of runSync         *)
(* invocations; every `await` is a point where another task may run, so    *)
(* each action below is the code between two awaits together with the      *)
(* IndexedDB transaction or HTTP exchange that the await waits for.        *)
(*                                                                         *)
(* An entry's user-editable fields (beans, brewMethod, notes, rating,      *)
(* brewedAt) are one value `val`: the number of the edit that produced     *)
(* them, so two different edits never carry equal fields.                  *)
(***************************************************************************)
EXTENDS Integers, Sequences, FiniteSets, TLC

\* number of distinct entry ids createId can hand out
NumIds == 2
\* number of outbox items enqueued over a run
MaxItems == 3
\* number of runSync invocations in flight at once
MaxPasses == 2
\* number of sign-ins over a run
MaxSignIns == 1

\* number of distinct readings of the clock
MaxTime == 2

Ids == 1..NumIds
ItemIds == 1..MaxItems
Times == 1..MaxTime
PassIds == 1..MaxPasses

VARIABLES
  token,        \* useState token / localStorage coffee_log_token
  online,       \* navigator.onLine
  effectDue,    \* the mount effect of the current token has not run yet
  syncState,    \* useState syncState
  entries,      \* useState entries (what the UI lists)
  dbEntries,    \* IndexedDB store `entries`
  dbOutbox,     \* IndexedDB store `outbox`
  remote,       \* table entries of the backend, for this user
  pass,         \* the runSync invocations in flight
  handler,      \* the user handler in flight (handleSubmit / handleDelete)
  enqueued,     \* history: every outbox item ever put, in enqueue order
  okSent,       \* history: the ids of the items whose remote call has succeeded
  signIns,      \* history: number of sign-ins so far
  rejected,     \* history: the ids of the items the server has answered 400
  table,        \* table entries of the backend, row by row with its timestamps
  swCache       \* the service worker's cached answer to GET /api/entries

vars == <<token, online, effectDue, syncState, entries, dbEntries, dbOutbox,
          remote, pass, handler, enqueued, okSent, signIns, rejected, table,
          swCache>>

----------------------------------------------------------------------------
\* data/types.ts

NoEntry == [val |-> 0, st |-> "none"]
Entry(v, s) == [val |-> v, st |-> s]
EmptyStore == [id \in Ids |-> NoEntry]

NoItem == [id |-> 0, action |-> "none", entryId |-> 0, payload |-> 0, queuedAt |-> 0]
OutboxItem(k, a, e, v, t) ==
  [id |-> k, action |-> a, entryId |-> e, payload |-> v, queuedAt |-> t]

\* toPayload: the fields of the entry, without syncStatus and timestamps
toPayload(entry) == entry.val

----------------------------------------------------------------------------
\* data/storage.ts

getAllEntries == dbEntries

putEntry(store, id, entry) == [store EXCEPT ![id] = entry]

deleteEntry(store, id) == [store EXCEPT ![id] = NoEntry]

clearEntries == EmptyStore

\* every entry of the list is put; the others stay as they are
putEntries(store, list) ==
  [id \in Ids |-> IF list[id] # NoEntry THEN list[id] ELSE store[id]]

\* store.put: a record with the same key is replaced
putOutboxItem(store, item) == {i \in store : i.id # item.id} \cup {item}

deleteOutboxItem(store, key) == {i \in store : i.id # key}

clearOutbox == {}

\* getAll returns the records in key order
RECURSIVE InKeyOrder(_)
InKeyOrder(S) ==
  IF S = {} THEN <<>>
  ELSE LET m == CHOOSE x \in S : \A y \in S : x.id <= y.id
       IN <<m>> \o InKeyOrder(S \ {m})

getOutboxItems == InKeyOrder(dbOutbox)

----------------------------------------------------------------------------
\* CoffeeLog.tsx, pure parts

\* Array.prototype.sort with the comparator of refreshOutbox (stable)
RECURSIVE SortByQueuedAt(_)
SortByQueuedAt(s) ==
  IF s = <<>> THEN <<>>
  ELSE LET i == CHOOSE j \in 1..Len(s) :
                  /\ \A k \in 1..Len(s) : s[j].queuedAt <= s[k].queuedAt
                  /\ \A k \in 1..(j-1) : s[k].queuedAt # s[j].queuedAt
       IN <<s[i]>> \o SortByQueuedAt(SubSeq(s, 1, i-1) \o SubSeq(s, i+1, Len(s)))

\* refreshOutbox with the comparator's operands swapped (latest first)
RECURSIVE Reversed(_)
Reversed(s) == IF s = <<>> THEN <<>> ELSE Append(Reversed(Tail(s)), Head(s))
refreshOutboxLatestFirst == Reversed(SortByQueuedAt(getOutboxItems))

refreshOutbox == SortByQueuedAt(getOutboxItems)

\* the merge with `pendingEntry ?? entry` turned round: the remote entry wins
MergedRemoteWins(remoteEntries, localEntries) ==
  [id \in Ids |->
     IF remoteEntries[id] # NoEntry THEN remoteEntries[id]
     ELSE (IF localEntries[id].st = "pending" THEN localEntries[id] ELSE NoEntry)]

\* a merge that keeps every local entry the remote listing does not have
MergedKeepsLocal(remoteEntries, localEntries) ==
  [id \in Ids |->
     IF localEntries[id].st = "pending" THEN localEntries[id]
     ELSE IF remoteEntries[id] # NoEntry THEN remoteEntries[id]
     ELSE localEntries[id]]

\* a merge that writes the pending entries it keeps as synced
MergedMarksSynced(remoteEntries, localEntries) ==
  [id \in Ids |->
     IF localEntries[id].st = "pending"
     THEN [localEntries[id] EXCEPT !.st = "synced"]
     ELSE remoteEntries[id]]

\* the merge of syncFromServer: remoteEntries.forEach, then pending.forEach
Merged(remoteEntries, localEntries) ==
  [id \in Ids |->
     IF remoteEntries[id] # NoEntry
     THEN (IF localEntries[id].st = "pending" THEN localEntries[id]
           ELSE remoteEntries[id])
     ELSE (IF localEntries[id].st = "pending" THEN localEntries[id]
           ELSE NoEntry)]

----------------------------------------------------------------------------
\* backend/main.go and data/api.ts

\* listEntries + fetchEntries: every row of the user, marked synced
fetchEntries ==
  [id \in Ids |-> IF remote[id] = 0 THEN NoEntry ELSE Entry(remote[id], "synced")]

\* readJSON and validateEntry: the fields of an edit are its number, negated
\* when they are fields that handleSubmit lets through and the server refuses
\* with 400 (notes that take the body past the 1 MiB readJSON accepts, a
\* brewedAt that toISOString renders outside RFC3339)
validateEntry(input) == input > 0

\* the HTTP status the server answers an item's request with: withAuth,
\* then validateEntry, then the handler of the method
StatusOf(item) ==
  IF ~token THEN 401
  ELSE IF item.action = "delete" THEN (IF remote[item.entryId] = 0 THEN 404 ELSE 204)
  ELSE IF ~validateEntry(item.payload) THEN 400
  ELSE IF item.action = "update" THEN (IF remote[item.entryId] = 0 THEN 404 ELSE 200)
  ELSE 201

\* ensureOk passes on 2xx; deleteEntry of api.ts returns on 404 before it
AcceptedNoDelete404(item) == StatusOf(item) \in {200, 201, 204}

Accepted(item) ==
  \/ StatusOf(item) \in {200, 201, 204}
  \/ (item.action = "delete" /\ StatusOf(item) = 404)

\* a server whose DELETE answers 204 and leaves the row in the table
AppliedIgnoresDelete(item) ==
  IF item.action = "delete" THEN remote
  ELSE [remote EXCEPT ![item.entryId] = item.payload]

\* upsertEntry / updateEntry / deleteEntry on the table
Applied(item) ==
  IF item.action = "delete" THEN [remote EXCEPT ![item.entryId] = 0]
  ELSE [remote EXCEPT ![item.entryId] = item.payload]

----------------------------------------------------------------------------

IdlePass == [pc |-> "idle", items |-> <<>>, idx |-> 0, resp |-> NoEntry,
             status |-> 0, local |-> EmptyStore, listing |-> EmptyStore,
             failed |-> FALSE]

\* the runtime cache of the service worker holds no answer for the listing
NoAnswer == [hit |-> FALSE, listing |-> EmptyStore]

IdleHandler == [pc |-> "idle", action |-> "none", entryId |-> 0, payload |-> 0]

Active(p) == pass[p].pc # "idle"

FreeSlot ==
  IF \A p \in PassIds : Active(p) THEN 0
  ELSE CHOOSE p \in PassIds : ~Active(p) /\ \A q \in 1..(p-1) : Active(q)

Init ==
  /\ token = TRUE
  /\ effectDue = TRUE
  /\ online = TRUE
  /\ syncState = "idle"
  /\ entries = EmptyStore
  /\ dbEntries = EmptyStore
  /\ dbOutbox = {}
  /\ remote = [id \in Ids |-> 0]
  /\ pass = [p \in PassIds |-> IdlePass]
  /\ handler = IdleHandler
  /\ enqueued = <<>>
  /\ okSent = {}
  /\ signIns = 0
  /\ rejected = {}
  /\ table = {}
  /\ swCache = NoAnswer

----------------------------------------------------------------------------
\* runSync without its test of navigator.onLine
runSyncIgnoresOnLine(tok, on) ==
  IF ~tok THEN UNCHANGED <<syncState, pass>>
  ELSE /\ FreeSlot # 0
       /\ syncState' = "syncing"
       /\ pass' = [pass EXCEPT ![FreeSlot] = [IdlePass EXCEPT !.pc = "read"]]

\* runSync without its test of the token
runSyncIgnoresToken(tok, on) ==
  IF ~on THEN syncState' = "offline" /\ UNCHANGED pass
  ELSE /\ FreeSlot # 0
       /\ syncState' = "syncing"
       /\ pass' = [pass EXCEPT ![FreeSlot] = [IdlePass EXCEPT !.pc = "read"]]

\* runSync (CoffeeLog.tsx 279-286): the part before the first await.
\* tok is the token of the closure the caller holds, on is navigator.onLine.
runSync(tok, on) ==
  IF ~tok THEN UNCHANGED <<syncState, pass>>
  ELSE IF ~on THEN syncState' = "offline" /\ UNCHANGED pass
  ELSE /\ FreeSlot # 0
       /\ syncState' = "syncing"
       /\ pass' = [pass EXCEPT ![FreeSlot] = [IdlePass EXCEPT !.pc = "read"]]

\* useEffect on token: loadLocal().then(refreshOutbox).then(runSync)
MountEffect ==
  /\ effectDue
  /\ token
  /\ effectDue' = FALSE
  /\ entries' = getAllEntries
  /\ runSync(token, online)
  /\ UNCHANGED <<token, online, dbEntries, dbOutbox, remote, handler, enqueued, okSent, signIns, table, swCache, rejected>>

\* the 'online' event with no listener registered
OnlineEventNoSync ==
  /\ ~online
  /\ online' = TRUE
  /\ UNCHANGED <<token, effectDue, syncState, entries, dbEntries, dbOutbox, remote,
                 pass, handler, enqueued, okSent, signIns, table, swCache, rejected>>

\* window 'online' event: handleOnline is registered only under a token
OnlineEvent ==
  /\ ~online
  /\ online' = TRUE
  /\ runSync(token, TRUE)
  /\ UNCHANGED <<token, effectDue, entries, dbEntries, dbOutbox, remote, handler,
                 enqueued, okSent, signIns, table, swCache, rejected>>

\* an offline listener that also drops the passes in flight
OfflineEventCancels ==
  /\ online
  /\ online' = FALSE
  /\ syncState' = (IF token THEN "offline" ELSE syncState)
  /\ pass' = [p \in PassIds |-> IdlePass]
  /\ UNCHANGED <<token, effectDue, entries, dbEntries, dbOutbox, remote,
                 handler, enqueued, okSent, signIns, table, swCache, rejected>>

\* window 'offline' event: handleOffline
OfflineEvent ==
  /\ online
  /\ online' = FALSE
  /\ syncState' = (IF token THEN "offline" ELSE syncState)
  /\ UNCHANGED <<token, effectDue, entries, dbEntries, dbOutbox, remote, pass,
                 handler, enqueued, okSent, signIns, table, swCache, rejected>>

\* handleAuthSubmit: the sign-in form is shown only without a token, so the
\* runSync it calls is the one of the render without token
handleAuthSubmit ==
  /\ ~token
  /\ online
  /\ signIns < MaxSignIns
  /\ signIns' = signIns + 1
  /\ token' = TRUE
  /\ effectDue' = TRUE
  /\ dbEntries' = clearEntries
  /\ dbOutbox' = clearOutbox
  /\ entries' = EmptyStore
  /\ runSync(token, online)
  /\ UNCHANGED <<online, remote, handler, enqueued, okSent, rejected, table, swCache>>

handleLogout ==
  /\ token
  /\ token' = FALSE
  /\ effectDue' = FALSE
  /\ entries' = EmptyStore
  /\ dbEntries' = clearEntries
  /\ dbOutbox' = clearOutbox
  /\ UNCHANGED <<online, syncState, remote, pass, handler, enqueued, okSent, signIns, table, swCache, rejected>>

----------------------------------------------------------------------------
\* handleSubmit / handleDelete. Each runs in three steps: the Local Store
\* write, the outbox put, and refreshOutbox with runSync.

\* createId: an id no entry had before
FreshId ==
  LET used == {enqueued[i].entryId : i \in 1..Len(enqueued)}
               \cup (IF handler.pc = "idle" THEN {} ELSE {handler.entryId})
  IN IF \A id \in Ids : id \in used THEN 0
     ELSE CHOOSE id \in Ids : id \notin used /\ \A j \in 1..(id-1) : j \in used

\* the fields of the form the user submits as the n-th edit
FormValue == Len(enqueued) + 1

\* a form that is disabled while a pass runs or after one has failed
CanEditWhenIdle ==
  /\ token
  /\ ~effectDue
  /\ handler.pc = "idle"
  /\ Len(enqueued) < MaxItems
  /\ syncState = "idle"

\* the form and the entry list are rendered under a token; the mount effect
\* has started its chain before the user gets to act
CanEdit ==
  /\ token
  /\ ~effectDue
  /\ handler.pc = "idle"
  /\ Len(enqueued) < MaxItems

\* handleSubmit without editingId (422-435), for the fields v of the form
CreateEntry(v) ==
  /\ FreshId # 0
  /\ LET newEntry == Entry(v, "pending")
     IN /\ entries' = [entries EXCEPT ![FreshId] = newEntry]
        /\ dbEntries' = putEntry(dbEntries, FreshId, newEntry)
        /\ handler' = [pc |-> "enqueue", action |-> "create", entryId |-> FreshId,
                       payload |-> toPayload(newEntry)]
  /\ UNCHANGED <<token, online, effectDue, syncState, dbOutbox, remote, pass,
                 enqueued, okSent, signIns, table, swCache, rejected>>

SubmitCreate ==
  /\ CanEdit
  /\ CreateEntry(FormValue)

\* the same with fields the server answers 400 to
SubmitCreateInvalid ==
  /\ CanEdit
  /\ CreateEntry(-FormValue)

\* handleSubmit with editingId (398-408)
SubmitUpdate(editingId) ==
  /\ CanEdit
  /\ entries[editingId] # NoEntry
  /\ LET updated == [entries[editingId] EXCEPT !.val = FormValue, !.st = "pending"]
     IN /\ entries' = [entries EXCEPT ![editingId] = updated]
        /\ dbEntries' = putEntry(dbEntries, editingId, updated)
        /\ handler' = [pc |-> "enqueue", action |-> "update", entryId |-> editingId,
                       payload |-> toPayload(updated)]
  /\ UNCHANGED <<token, online, effectDue, syncState, dbOutbox, remote, pass,
                 enqueued, okSent, signIns, table, swCache, rejected>>

\* handleDelete (448-451)
handleDelete(id) ==
  /\ CanEdit
  /\ entries[id] # NoEntry
  /\ entries' = [entries EXCEPT ![id] = NoEntry]
  /\ dbEntries' = deleteEntry(dbEntries, id)
  /\ handler' = [pc |-> "enqueue", action |-> "delete", entryId |-> id, payload |-> 0]
  /\ UNCHANGED <<token, online, effectDue, syncState, dbOutbox, remote, pass,
                 enqueued, okSent, signIns, table, swCache, rejected>>

\* await putOutboxItem({id: createId(), action, entryId, payload, queuedAt})
\* where createId returns k and the clock reads t
Enqueue(k, t) ==
  /\ LET item == OutboxItem(k, handler.action, handler.entryId, handler.payload, t)
     IN /\ dbOutbox' = putOutboxItem(dbOutbox, item)
        /\ enqueued' = Append(enqueued, item)
  /\ handler' = [handler EXCEPT !.pc = "sync"]
  /\ UNCHANGED <<token, online, effectDue, syncState, entries, dbEntries, remote,
                 pass, okSent, signIns, table, swCache, rejected>>

\* an enqueue that first deletes the queued items of the same entry
HandlerEnqueueCoalescing ==
  /\ handler.pc = "enqueue"
  /\ LET n == Len(enqueued) + 1
         item == OutboxItem(n, handler.action, handler.entryId, handler.payload, n)
     IN /\ dbOutbox' = putOutboxItem({i \in dbOutbox : i.entryId # item.entryId}, item)
        /\ enqueued' = Append(enqueued, item)
  /\ handler' = [handler EXCEPT !.pc = "sync"]
  /\ UNCHANGED <<token, online, effectDue, syncState, entries, dbEntries, remote,
                 pass, okSent, signIns, table, swCache, rejected>>

\* the enqueue on a device whose clock has moved on since the last enqueue
\* and whose item ids happen to sort in enqueue order
HandlerEnqueue ==
  /\ handler.pc = "enqueue"
  /\ Enqueue(Len(enqueued) + 1, Len(enqueued) + 1)

\* the enqueue as createId and Date give it: a random unused id, a clock of
\* millisecond resolution that has not gone back since the last enqueue
HandlerEnqueueClock ==
  /\ handler.pc = "enqueue"
  /\ \E k \in ItemIds, t \in Times :
       /\ \A i \in 1..Len(enqueued) : enqueued[i].id # k /\ enqueued[i].queuedAt <= t
       /\ Enqueue(k, t)

\* await refreshOutbox(); await runSync()  -- the handler's closure has a token
HandlerRunSync ==
  /\ handler.pc = "sync"
  /\ handler' = IdleHandler
  /\ runSync(TRUE, online)
  /\ UNCHANGED <<token, online, effectDue, entries, dbEntries, dbOutbox, remote,
                 enqueued, okSent, signIns, table, swCache, rejected>>

----------------------------------------------------------------------------
\* One runSync invocation p: processOutbox (253-277), syncFromServer
\* (227-251), then refreshOutbox and the final setSyncState (290-297).

CurrentItem(p) == pass[p].items[pass[p].idx]

\* processOutbox: const items = await refreshOutbox()
PassRead(p) ==
  /\ pass[p].pc = "read"
  /\ LET items == refreshOutbox
     IN pass' = [pass EXCEPT ![p].items = items,
                             ![p].idx = IF items = <<>> THEN 0 ELSE 1,
                             ![p].pc = IF items = <<>> THEN "local" ELSE "call"]
  /\ UNCHANGED <<token, online, effectDue, syncState, entries, dbEntries, dbOutbox,
                 remote, handler, enqueued, okSent, signIns, table, swCache, rejected>>

\* the stage after the remote call of an item: putEntry for create and
\* update (with a payload), deleteOutboxItem at once for delete
AfterCall(item) ==
  IF item.action \in {"create", "update"} /\ item.payload # 0 THEN "put" ELSE "remove"

\* createEntry / updateEntry / deleteEntryRemote resolves
PassCallOk(p) ==
  /\ pass[p].pc = "call"
  /\ online
  /\ Accepted(CurrentItem(p))
  /\ LET item == CurrentItem(p)
     IN /\ remote' = Applied(item)
        /\ okSent' = okSent \cup {item.id}
        /\ pass' = [pass EXCEPT
                      ![p].resp = IF item.action = "delete" THEN NoEntry
                                  ELSE Entry(item.payload, "synced"),
                      ![p].status = StatusOf(item),
                      ![p].pc = AfterCall(item)]
  /\ UNCHANGED <<token, online, effectDue, syncState, entries, dbEntries, dbOutbox,
                 handler, enqueued, signIns, table, swCache, rejected>>

\* the catch of processOutbox without its break: the loop goes on with the
\* next item
DrainSkipsAhead(p) ==
  pass' = IF pass[p].idx < Len(pass[p].items)
          THEN [pass EXCEPT ![p].failed = TRUE, ![p].idx = @ + 1]
          ELSE [pass EXCEPT ![p].failed = TRUE, ![p].pc = "local",
                            ![p].items = <<>>, ![p].idx = 0]

\* catch of processOutbox: setError, break; processOutbox then returns
\* normally and runSync goes on with syncFromServer
DrainStopped(p) ==
  pass' = [pass EXCEPT ![p].failed = TRUE, ![p].pc = "local",
                       ![p].items = <<>>, ![p].idx = 0]

\* the server answers 401 (no token) or 404 (update of an absent row):
\* ensureOk throws
PassCallRejected(p) ==
  /\ pass[p].pc = "call"
  /\ online
  /\ ~Accepted(CurrentItem(p))
  /\ DrainStopped(p)
  /\ rejected' = IF StatusOf(CurrentItem(p)) = 400
                 THEN rejected \cup {CurrentItem(p).id} ELSE rejected
  /\ UNCHANGED <<token, online, effectDue, syncState, entries, dbEntries, dbOutbox,
                 remote, handler, enqueued, okSent, signIns, table, swCache>>

\* fetch rejects: the request did not reach the server
PassCallNetFail(p) ==
  /\ pass[p].pc = "call"
  /\ DrainStopped(p)
  /\ UNCHANGED <<token, online, effectDue, syncState, entries, dbEntries, dbOutbox,
                 remote, handler, enqueued, okSent, signIns, table, swCache, rejected>>

\* the putEntry of processOutbox without its syncStatus: 'synced'
PassPutKeepsPending(p) ==
  /\ pass[p].pc = "put"
  /\ dbEntries' = putEntry(dbEntries, CurrentItem(p).entryId,
                           [pass[p].resp EXCEPT !.st = "pending"])
  /\ pass' = [pass EXCEPT ![p].pc = "remove", ![p].resp = NoEntry]
  /\ UNCHANGED <<token, online, effectDue, syncState, entries, dbOutbox, remote,
                 handler, enqueued, okSent, signIns, table, swCache, rejected>>

\* await putEntry({...created, syncStatus: 'synced'})
PassPut(p) ==
  /\ pass[p].pc = "put"
  /\ dbEntries' = putEntry(dbEntries, CurrentItem(p).entryId, pass[p].resp)
  /\ pass' = [pass EXCEPT ![p].pc = "remove", ![p].resp = NoEntry]
  /\ UNCHANGED <<token, online, effectDue, syncState, entries, dbOutbox, remote,
                 handler, enqueued, okSent, signIns, table, swCache, rejected>>

\* a drain that goes on to the next item and leaves the sent one queued
PassRemoveKeepsItem(p) ==
  /\ pass[p].pc = "remove"
  /\ pass' = IF pass[p].idx < Len(pass[p].items)
              THEN [pass EXCEPT ![p].idx = @ + 1, ![p].status = 0, ![p].pc = "call"]
              ELSE [pass EXCEPT ![p].items = <<>>, ![p].idx = 0, ![p].status = 0,
                                ![p].pc = "local"]
  /\ UNCHANGED <<token, online, effectDue, syncState, entries, dbEntries, dbOutbox,
                 remote, handler, enqueued, okSent, signIns, table, swCache, rejected>>

\* await deleteOutboxItem(item.id), then the next turn of the for loop
PassRemove(p) ==
  /\ pass[p].pc = "remove"
  /\ dbOutbox' = deleteOutboxItem(dbOutbox, CurrentItem(p).id)
  /\ pass' = IF pass[p].idx < Len(pass[p].items)
              THEN [pass EXCEPT ![p].idx = @ + 1, ![p].status = 0, ![p].pc = "call"]
              ELSE [pass EXCEPT ![p].items = <<>>, ![p].idx = 0, ![p].status = 0,
                                ![p].pc = "local"]
  /\ UNCHANGED <<token, online, effectDue, syncState, entries, dbEntries, remote,
                 handler, enqueued, okSent, signIns, table, swCache, rejected>>

\* syncFromServer: const localEntries = await getAllEntries()
PassLocal(p) ==
  /\ pass[p].pc = "local"
  /\ pass' = [pass EXCEPT ![p].local = getAllEntries, ![p].pc = "fetch"]
  /\ UNCHANGED <<token, online, effectDue, syncState, entries, dbEntries, dbOutbox,
                 remote, handler, enqueued, okSent, signIns, table, swCache, rejected>>

\* const remoteEntries = await fetchEntries()
PassFetchOk(p) ==
  /\ pass[p].pc = "fetch"
  /\ online
  /\ token
  /\ pass' = [pass EXCEPT ![p].listing = fetchEntries, ![p].pc = "clear"]
  /\ UNCHANGED <<token, online, effectDue, syncState, entries, dbEntries, dbOutbox,
                 remote, handler, enqueued, okSent, signIns, table, swCache, rejected>>

\* the catch of runSync ending like the try block, with setSyncState('idle')
PassThrowsIdle(p) ==
  /\ syncState' = "idle"
  /\ pass' = [pass EXCEPT ![p] = IdlePass]

\* catch of runSync: setError, setSyncState('offline')
PassThrows(p) ==
  /\ syncState' = "offline"
  /\ pass' = [pass EXCEPT ![p] = IdlePass]

\* the server answers 401: ensureOk throws in fetchEntries
PassFetchRejected(p) ==
  /\ pass[p].pc = "fetch"
  /\ online
  /\ ~token
  /\ PassThrows(p)
  /\ UNCHANGED <<token, online, effectDue, entries, dbEntries, dbOutbox, remote,
                 handler, enqueued, okSent, signIns, table, swCache, rejected>>

PassFetchNetFail(p) ==
  /\ pass[p].pc = "fetch"
  /\ PassThrows(p)
  /\ UNCHANGED <<token, online, effectDue, entries, dbEntries, dbOutbox, remote,
                 handler, enqueued, okSent, signIns, table, swCache, rejected>>

\* await clearEntries()
PassClear(p) ==
  /\ pass[p].pc = "clear"
  /\ dbEntries' = clearEntries
  /\ pass' = [pass EXCEPT ![p].pc = "putall"]
  /\ UNCHANGED <<token, online, effectDue, syncState, entries, dbOutbox, remote,
                 handler, enqueued, okSent, signIns, table, swCache, rejected>>

\* await putEntries(merged); setEntries(sortEntries(merged))
PassPutAll(p) ==
  /\ pass[p].pc = "putall"
  /\ LET merged == Merged(pass[p].listing, pass[p].local)
     IN /\ dbEntries' = putEntries(dbEntries, merged)
        /\ entries' = merged
  /\ pass' = [pass EXCEPT ![p].pc = "refresh"]
  /\ UNCHANGED <<token, online, effectDue, syncState, dbOutbox, remote, handler,
                 enqueued, okSent, signIns, table, swCache, rejected>>

\* a pass that ends without setting the status
PassFinishKeepsStatus(p) ==
  /\ pass[p].pc = "refresh"
  /\ pass' = [pass EXCEPT ![p] = IdlePass]
  /\ UNCHANGED <<token, online, effectDue, syncState, entries, dbEntries, dbOutbox,
                 remote, handler, enqueued, okSent, signIns, table, swCache, rejected>>

\* await refreshOutbox(); setSyncState('idle')
PassFinish(p) ==
  /\ pass[p].pc = "refresh"
  /\ syncState' = "idle"
  /\ pass' = [pass EXCEPT ![p] = IdlePass]
  /\ UNCHANGED <<token, online, effectDue, entries, dbEntries, dbOutbox, remote,
                 handler, enqueued, okSent, signIns, table, swCache, rejected>>

----------------------------------------------------------------------------

UserStep ==
  \/ SubmitCreate
  \/ \E id \in Ids : SubmitUpdate(id)
  \/ \E id \in Ids : handleDelete(id)
  \/ HandlerEnqueue
  \/ HandlerRunSync

\* the steps of a pass that neither the network nor the server fails
PassLocalStep(p) ==
  \/ PassRead(p)
  \/ PassPut(p)
  \/ PassRemove(p)
  \/ PassLocal(p)
  \/ PassClear(p)
  \/ PassPutAll(p)
  \/ PassFinish(p)

\* a signed-in session: user actions and sync passes, every remote call
\* free to succeed or to fail
Next ==
  \/ MountEffect
  \/ UserStep
  \/ \E p \in PassIds :
       \/ PassLocalStep(p)
       \/ PassCallOk(p)
       \/ PassCallRejected(p)
       \/ PassCallNetFail(p)
       \/ PassFetchOk(p)
       \/ PassFetchNetFail(p)

Spec == Init /\ [][Next]_vars

\* the same session with a network that never fails
NextUp ==
  \/ MountEffect
  \/ UserStep
  \/ \E p \in PassIds :
       \/ PassLocalStep(p)
       \/ PassCallOk(p)
       \/ PassCallRejected(p)
       \/ PassFetchOk(p)

SpecUp == Init /\ [][NextUp]_vars

\* the same session with every remote call failing
NextDown ==
  \/ MountEffect
  \/ UserStep
  \/ \E p \in PassIds :
       \/ PassRead(p)
       \/ PassCallNetFail(p)
       \/ PassLocal(p)
       \/ PassFetchNetFail(p)

SpecDown == Init /\ [][NextDown]_vars

\* sessions with sign-out and sign-in, over a network that never fails, in
\* which the user only adds entries
NextAuth ==
  \/ handleAuthSubmit
  \/ handleLogout
  \/ MountEffect
  \/ SubmitCreate
  \/ HandlerEnqueue
  \/ HandlerRunSync
  \/ \E p \in PassIds :
       \/ PassLocalStep(p)
       \/ PassCallOk(p)
       \/ PassCallRejected(p)
       \/ PassFetchOk(p)
       \/ PassFetchRejected(p)

SpecAuth == Init /\ [][NextAuth]_vars

NoPass == \A p \in PassIds : ~Active(p)

\* sessions in which connectivity comes and goes, every remote call made
\* succeeds, and the user acts and connectivity is lost only between passes
NextSolo ==
  \/ MountEffect
  \/ OnlineEvent
  \/ (NoPass /\ OfflineEvent)
  \/ (NoPass /\ UserStep)
  \/ \E p \in PassIds :
       \/ PassLocalStep(p)
       \/ PassCallOk(p)
       \/ PassFetchOk(p)

SpecSolo == Init /\ [][NextSolo]_vars

\* the sessions of SpecSolo with item ids and queuedAt as createId and Date
\* give them
NextClock ==
  \/ MountEffect
  \/ OnlineEvent
  \/ (NoPass /\ OfflineEvent)
  \/ (NoPass /\ (\/ SubmitCreate
                 \/ \E id \in Ids : SubmitUpdate(id)
                 \/ \E id \in Ids : handleDelete(id)
                 \/ HandlerEnqueueClock
                 \/ HandlerRunSync))
  \/ \E p \in PassIds :
       \/ PassLocalStep(p)
       \/ PassCallOk(p)
       \/ PassCallRejected(p)
       \/ PassFetchOk(p)

SpecClock == Init /\ [][NextClock]_vars

\* a signed-in session over a network that never fails, in which the user
\* may also submit a form the server refuses
NextInvalid ==
  \/ MountEffect
  \/ SubmitCreateInvalid
  \/ UserStep
  \/ \E p \in PassIds :
       \/ PassLocalStep(p)
       \/ PassCallOk(p)
       \/ PassCallRejected(p)
       \/ PassFetchOk(p)

SpecInvalid == Init /\ [][NextInvalid]_vars

\* every step a pass can take, whatever the network and the server answer
PassStep(p) ==
  \/ PassLocalStep(p)
  \/ PassCallOk(p)
  \/ PassCallRejected(p)
  \/ PassCallNetFail(p)
  \/ PassFetchOk(p)
  \/ PassFetchNetFail(p)

\* sessions in which connectivity is lost at any moment and regained between
\* passes, every remote call is free to succeed or to fail, and the user acts
\* only between passes
NextConn ==
  \/ MountEffect
  \/ (NoPass /\ OnlineEvent)
  \/ OfflineEvent
  \/ (NoPass /\ UserStep)
  \/ \E p \in PassIds : PassStep(p)

SpecConn == Init /\ [][NextConn]_vars

\* the same sessions when every remote call and every Local Store operation
\* a pass has issued comes back: the event loop runs each continuation
SpecConnFair == SpecConn /\ \A p \in PassIds : WF_vars(PassStep(p))

\* the values a field of an entry takes
Vals == 1..MaxItems

\* a device that opens the app with any Local Store entries against any
\* remote table (other devices write to it too) and nothing queued
InitMerge ==
  /\ token = TRUE
  /\ effectDue = TRUE
  /\ online = TRUE
  /\ syncState = "idle"
  /\ entries = EmptyStore
  /\ dbEntries \in [Ids -> {NoEntry} \cup {Entry(v, s) : v \in Vals, s \in {"pending", "synced"}}]
  /\ dbOutbox = {}
  /\ remote \in [Ids -> {0} \cup Vals]
  /\ pass = [p \in PassIds |-> IdlePass]
  /\ handler = IdleHandler
  /\ enqueued = <<>>
  /\ okSent = {}
  /\ signIns = 0
  /\ rejected = {}
  /\ table = {}
  /\ swCache = NoAnswer

\* reconcile run again and again, each pass alone, with no user action
NextMerge ==
  \/ MountEffect
  \/ OnlineEvent
  \/ (NoPass /\ ~effectDue /\ OfflineEvent)
  \/ \E p \in PassIds :
       \/ PassRead(p)
       \/ PassLocal(p)
       \/ PassFetchOk(p)
       \/ PassClear(p)
       \/ PassPutAll(p)
       \/ PassFinish(p)

SpecMerge == InitMerge /\ [][NextMerge]_vars

----------------------------------------------------------------------------
\* backend/main.go: POST /api/entries on the table, row by row

\* number of accounts, and the last instant of the server's clock
NumUsers == 2
MaxClock == 3

Users == 1..NumUsers
Instants == 1..MaxClock

Row(u, id, v, c, t) == [user |-> u, id |-> id, val |-> v, createdAt |-> c, updatedAt |-> t]

\* an upsert that replaces the row it conflicts with by a new one
upsertEntryReplacesRow(rows, u, id, v, now) ==
  {r \in rows : ~(r.user = u /\ r.id = id)} \cup {Row(u, id, v, now, now)}

\* upsertEntry: INSERT ... ON CONFLICT (user_id, id) DO UPDATE SET the fields
\* and updated_at; created_at is no part of the SET list
upsertEntry(rows, u, id, v, now) ==
  IF \E r \in rows : r.user = u /\ r.id = id
  THEN {IF r.user = u /\ r.id = id THEN [r EXCEPT !.val = v, !.updatedAt = now]
        ELSE r : r \in rows}
  ELSE rows \cup {Row(u, id, v, now, now)}

\* POST /api/entries of user u with client-assigned id and fields v, at the
\* instant now of a clock that does not go back
PostEntry(u, id, v, now) ==
  /\ validateEntry(v)
  /\ \A r \in table : r.updatedAt <= now
  /\ table' = upsertEntry(table, u, id, v, now)
  /\ UNCHANGED <<token, online, effectDue, syncState, entries, dbEntries, dbOutbox,
                 remote, pass, handler, enqueued, okSent, signIns, rejected, swCache>>

\* any sequence of create calls, of any account, with ids and fields repeated
NextUpsert ==
  \E u \in Users, id \in Ids, v \in Vals, now \in Instants : PostEntry(u, id, v, now)

SpecUpsert == Init /\ [][NextUpsert]_vars

----------------------------------------------------------------------------
\* public/sw.js: the production build registers the service worker, which
\* answers every GET under /api/ with networkFirst

\* fetchEntries through networkFirst, the network answering: an ok response
\* is put in the runtime cache and returned
PassFetchViaSw(p) ==
  /\ pass[p].pc = "fetch"
  /\ online
  /\ token
  /\ swCache' = [hit |-> TRUE, listing |-> fetchEntries]
  /\ pass' = [pass EXCEPT ![p].listing = fetchEntries, ![p].pc = "clear"]
  /\ UNCHANGED <<token, online, effectDue, syncState, entries, dbEntries, dbOutbox,
                 remote, handler, enqueued, okSent, signIns, rejected, table>>

\* fetchEntries through networkFirst, fetch rejecting: cache.match finds the
\* response of an earlier GET /api/entries and returns it
PassFetchFromCache(p) ==
  /\ pass[p].pc = "fetch"
  /\ swCache.hit
  /\ pass' = [pass EXCEPT ![p].listing = swCache.listing, ![p].pc = "clear"]
  /\ UNCHANGED <<token, online, effectDue, syncState, entries, dbEntries, dbOutbox,
                 remote, handler, enqueued, okSent, signIns, rejected, table,
                 swCache>>

\* fetchEntries through networkFirst, fetch rejecting and nothing cached:
\* networkFirst rethrows
PassFetchNoCache(p) ==
  /\ ~swCache.hit
  /\ PassFetchNetFail(p)

\* the sessions of SpecConn in a page the service worker controls
NextSw ==
  \/ MountEffect
  \/ (NoPass /\ OnlineEvent)
  \/ OfflineEvent
  \/ (NoPass /\ UserStep)
  \/ \E p \in PassIds :
       \/ PassLocalStep(p)
       \/ PassCallOk(p)
       \/ PassCallRejected(p)
       \/ PassCallNetFail(p)
       \/ PassFetchViaSw(p)
       \/ PassFetchFromCache(p)
       \/ PassFetchNoCache(p)

SpecSw == Init /\ [][NextSw]_vars

----------------------------------------------------------------------------
\* Properties

InDrain(p) == pass[p].pc \in {"call", "put", "remove"}

Items == {enqueued[i] : i \in 1..Len(enqueued)}

\* the last item enqueued for an entry id (NoItem when there is none)
LastItem(id) ==
  LET is == {i \in 1..Len(enqueued) : enqueued[i].entryId = id}
  IN IF is = {} THEN NoItem
     ELSE enqueued[CHOOSE i \in is : \A j \in is : j <= i]

\* C1: at most one runSync invocation is between entering Syncing and
\* finishing; a request made while one is active starts no second pass.
C1_OnePassAtATime ==
  Cardinality({p \in PassIds : Active(p)}) <= 1

\* C2: with two items queued, a network that never fails and sync requests
\* made while a pass drains the two items, no remote call is issued for an
\* item whose remote call has already succeeded: each item is sent once.
C2_EachItemSentOnce ==
  Len(enqueued) = 2 =>
    \A p \in PassIds :
      (pass[p].pc = "call" /\ Len(pass[p].items) = 2)
        => CurrentItem(p).id \notin okSent

C4_DrainStopsAtFailure ==
  [][\A p \in PassIds :
       /\ (pass[p].pc = "call" /\ pass'[p].failed) =>
            /\ pass'[p].pc = "local"
            /\ dbOutbox' = dbOutbox
            /\ remote' = remote
       /\ (pass[p].failed /\ pass'[p] # pass[p]) =>
            /\ ~InDrain(p)'
            /\ dbOutbox' = dbOutbox
            /\ remote' = remote
            /\ okSent' = okSent]_vars

C4_FailedWithItemsLeft ==
  \E p \in PassIds :
    /\ pass[p].failed
    /\ pass[p].pc = "fetch"
    /\ Cardinality(dbOutbox) >= 2
    /\ okSent = {}

\* C5: a pass whose drain failed does not fetch the remote listing and does
\* not replace the entries collection.
C5_NoReconcileAfterFailedDrain ==
  \A p \in PassIds :
    pass[p].failed => pass[p].pc \notin {"clear", "putall", "refresh"}

\* C6: a pass in which a remote call failed ends with status Offline.
C6_FailedPassEndsOffline ==
  [][\A p \in PassIds :
       (pass[p].failed /\ pass'[p].pc = "idle") => syncState' = "offline"]_vars

\* C7: with every remote call failing, every item ever enqueued stays in
\* the outbox, every pass ends with status Offline, and no step other than
\* a user action changes an entry that is pending.
C7_OfflinePreservation ==
  /\ [](dbOutbox = Items)
  /\ [][\A p \in PassIds :
          (Active(p) /\ pass'[p].pc = "idle") => syncState' = "offline"]_vars
  /\ [][\A id \in Ids :
          (dbEntries[id].st = "pending" /\ handler' = handler) =>
             dbEntries'[id] = dbEntries[id]]_vars

C7_ThreeQueuedAfterPass ==
  /\ Cardinality(dbOutbox) = 3
  /\ \A p \in PassIds : ~Active(p)
  /\ handler = IdleHandler
  /\ syncState = "offline"
  /\ \E id \in Ids : dbEntries[id].st = "pending"

\* C8: an outbox item leaves the outbox only after a remote call for it has
\* succeeded.
C8_RemovedOnlyAfterSuccess ==
  \A i \in Items : i \notin dbOutbox => i.id \in okSent

\* C9: once nothing is in flight and the outbox is empty, the remote holds
\* every entry with the payload of its last queued create or update, and
\* holds no entry whose last queued item is a delete.
Quiescent ==
  /\ handler = IdleHandler
  /\ \A p \in PassIds : ~Active(p)
  /\ ~effectDue

C9_RemoteReflectsLastEdit ==
  (Quiescent /\ dbOutbox = {}) =>
    \A id \in Ids :
      LET last == LastItem(id)
      IN /\ last.action \in {"create", "update"} => remote[id] = last.payload
         /\ last.action = "delete" => remote[id] = 0

\* C10: the step of reconcile that writes the merged set puts, for every
\* entry that was pending when reconcile read the Local Store, that local
\* version into the Local Store, whether or not the remote listing has the id.
C10_PendingWins ==
  [][\A p \in PassIds :
       (pass[p].pc = "putall" /\ pass'[p].pc = "refresh") =>
          \A id \in Ids :
            pass[p].local[id].st = "pending" =>
               /\ dbEntries'[id] = pass[p].local[id]
               /\ entries'[id] = pass[p].local[id]]_vars

C10_PendingOverRemote ==
  \E p \in PassIds : \E id \in Ids :
    /\ pass[p].pc = "refresh"
    /\ pass[p].local[id].st = "pending"
    /\ pass[p].listing[id] # NoEntry
    /\ pass[p].listing[id].val # pass[p].local[id].val
    /\ dbEntries[id] = pass[p].local[id]

\* C11: every step of reconcile that changes the Local Store entries
\* collection takes it from the pre-merge set straight to the merged set, so
\* no read or write interleaved with reconcile meets any other set.
C11_AtomicReplace ==
  [][\A p \in PassIds :
       (/\ pass[p].pc \in {"clear", "putall"}
        /\ pass'[p].pc # pass[p].pc
        /\ dbEntries' # dbEntries)
         => dbEntries' = Merged(pass[p].listing, pass[p].local)]_vars

\* C12: an entry of the Local Store is pending if and only if an outbox
\* item with its id is queued; stated for the entries that no user action
\* and no pass is in the middle of writing (between a user action's Local
\* Store write and its enqueue, or between an item's remote answer and its
\* removal from the outbox).
Settling(id) ==
  \/ (handler.pc = "enqueue" /\ handler.entryId = id)
  \/ \E p \in PassIds : pass[p].pc \in {"put", "remove"} /\ CurrentItem(p).entryId = id

C12_PendingIffQueued ==
  \A id \in Ids :
    (dbEntries[id] # NoEntry /\ ~Settling(id)) =>
      (dbEntries[id].st = "pending" <=> \E i \in dbOutbox : i.entryId = id)

\* C13: no sync pass reads the outbox or the Local Store entries between a
\* user action's Local Store write and its outbox enqueue.
C13_WriteAndEnqueueInseparable ==
  [][\A p \in PassIds :
       handler.pc = "enqueue" =>
         ~(pass[p].pc \in {"read", "local"} /\ pass'[p].pc # pass[p].pc)]_vars

\* C14: when the remote answers not-found to a queued delete, the pass goes
\* on to remove that item without failing, and the removal takes the item
\* out of the outbox and moves to the next item (or ends the drain).
C14_DeleteNotFoundIsSuccess ==
  [][\A p \in PassIds :
       /\ (/\ pass[p].pc = "call"
           /\ CurrentItem(p).action = "delete"
           /\ StatusOf(CurrentItem(p)) = 404
           /\ pass'[p] # pass[p])
            => (pass'[p].pc = "remove" /\ ~pass'[p].failed)
       /\ (pass[p].pc = "remove" /\ pass[p].status = 404 /\ pass'[p] # pass[p])
            => /\ CurrentItem(p) \notin dbOutbox'
               /\ ~pass'[p].failed
               /\ IF pass[p].idx < Len(pass[p].items)
                  THEN pass'[p].pc = "call" /\ pass'[p].idx = pass[p].idx + 1
                  ELSE pass'[p].pc = "local"]_vars

C14_DeleteAnsweredNotFound ==
  \E p \in PassIds :
    /\ pass[p].pc = "local"
    /\ ~pass[p].failed
    /\ dbOutbox = {}
    /\ \E q \in PassIds : pass[q].pc = "remove" /\ pass[q].status = 404

\* C15: when a pass ends in a session where every remote call succeeds and
\* the user acts only between passes, and no user action is part-way
\* through during the pass, the outbox is empty and every entry
\* whose last queued item is a create or an update is in the Local Store (and
\* in the list shown) as synced with the fields the remote returned for it.
C15_SyncedAfterPass ==
  [][\A p \in PassIds :
       (pass[p].pc = "refresh" /\ pass'[p].pc = "idle" /\ handler = IdleHandler) =>
          /\ dbOutbox' = {}
          /\ \A id \in Ids :
               LastItem(id).action \in {"create", "update"} =>
                 /\ dbEntries'[id] = Entry(LastItem(id).payload, "synced")
                 /\ entries'[id] = Entry(LastItem(id).payload, "synced")
                 /\ remote'[id] = LastItem(id).payload]_vars

C15_UpdatedEntrySynced ==
  /\ NoPass
  /\ syncState = "idle"
  /\ dbOutbox = {}
  /\ \E id \in Ids :
       /\ LastItem(id).action = "update"
       /\ dbEntries[id] = Entry(LastItem(id).payload, "synced")

\* C16: a sync request (from the mount effect, a user handler or the online
\* event) made while connectivity is unreachable sets the status to Offline
\* and starts no pass, makes no remote call and leaves the outbox and the
\* Local Store entries as they are; made while reachable it sets Syncing and
\* starts a pass.
SyncRequested ==
  \/ (handler.pc = "sync" /\ handler' = IdleHandler)
  \/ (effectDue /\ ~effectDue')
  \/ (~online /\ online')

C16_RequestByConnectivity ==
  [][SyncRequested =>
       IF online'
       THEN /\ syncState' = "syncing"
            /\ \E p \in PassIds : ~Active(p) /\ pass'[p].pc = "read"
       ELSE /\ syncState' = "offline"
            /\ pass' = pass
            /\ remote' = remote
            /\ okSent' = okSent
            /\ dbOutbox' = dbOutbox
            /\ dbEntries' = dbEntries]_vars

C16_RequestedWhileOffline ==
  /\ ~online
  /\ handler = IdleHandler
  /\ dbOutbox # {}
  /\ syncState = "offline"
  /\ NoPass

\* C17: every transition of connectivity to reachable starts a sync pass
\* and sets the status to Syncing, whatever the status was.
C17_OnlineTriggersPass ==
  [][(~online /\ online') =>
       /\ syncState' = "syncing"
       /\ \E p \in PassIds : ~Active(p) /\ pass'[p].pc = "read"]_vars

C17_PassAfterRegain ==
  /\ online
  /\ syncState = "syncing"
  /\ \E p \in PassIds : pass[p].pc = "call" /\ Len(pass[p].items) >= 2

\* the position of an item in the enqueue order
Pos(item) == CHOOSE n \in 1..Len(enqueued) : enqueued[n] = item

\* C18: the list a pass drains is in enqueue order: of any two items of it
\* the one enqueued first comes first.
C18_DrainInEnqueueOrder ==
  \A p \in PassIds :
    \A a, b \in 1..Len(pass[p].items) :
      a < b => Pos(pass[p].items[a]) < Pos(pass[p].items[b])

\* C19: no pass sends an item that the remote has refused with a validation
\* error before.
C19_RejectedNotResent ==
  \A p \in PassIds :
    pass[p].pc = "call" => CurrentItem(p).id \notin rejected

FormShown ==
  /\ token
  /\ ~effectDue
  /\ handler = IdleHandler
  /\ Len(enqueued) < MaxItems

\* C21: in every sync status the form takes a create (while an id is left),
\* and takes an update and a delete of every entry listed; with the remote
\* unreachable, the enqueue of each accepted action adds exactly one item to
\* the outbox and leaves the items queued before as they were
C21_EditsNeverBlocked ==
  /\ [](\A s \in {"idle", "syncing", "offline"} :
          (FormShown /\ syncState = s) =>
             /\ (FreshId # 0 => ENABLED SubmitCreate)
             /\ \A id \in Ids : entries[id] # NoEntry =>
                  (ENABLED SubmitUpdate(id)) /\ (ENABLED handleDelete(id)))
  /\ [][(handler.pc = "enqueue" /\ handler'.pc = "sync") =>
          /\ dbOutbox \subseteq dbOutbox'
          /\ Cardinality(dbOutbox') = Cardinality(dbOutbox) + 1
          /\ \A i \in dbOutbox' \ dbOutbox :
               /\ i.action = handler.action
               /\ i.entryId = handler.entryId]_vars

\* an action accepted and queued behind two others while the status shows
\* the failure of the last pass
C21_QueuedWhileOffline ==
  /\ syncState = "offline"
  /\ handler.pc = "sync"
  /\ Cardinality(dbOutbox) = 3

\* C22: when every call a pass has issued comes back, the pass ends; the
\* step that ends it leaves the status idle or offline, and the status is
\* not syncing while no pass is in flight
C22_PassTerminates ==
  /\ \A p \in PassIds : Active(p) ~> ~Active(p)
  /\ [][\A p \in PassIds :
          (Active(p) /\ ~Active(p)') => syncState' \in {"idle", "offline"}]_vars
  /\ [](NoPass => syncState # "syncing")

\* a pass has ended in offline: the browser is online, so the status comes
\* from the pass and not from the offline listener
C22_PassEndedOffline ==
  /\ NoPass
  /\ ~effectDue
  /\ online
  /\ syncState = "offline"

\* C23: the step in which connectivity is lost leaves every pass in flight
\* where it was and changes neither the outbox nor the Local Store entries;
\* the pass goes on until a call of its own fails or it completes
C23_LossKeepsPassAndStores ==
  /\ [][(online /\ ~online') =>
          /\ pass' = pass
          /\ dbOutbox' = dbOutbox
          /\ dbEntries' = dbEntries]_vars
  /\ \A p \in PassIds : (Active(p) /\ ~online) ~> ~Active(p)

\* a pass in flight when connectivity was lost has run to its end: the
\* offline listener had set the status, only the end of a pass sets idle
C23_PassCompletedAfterLoss ==
  /\ ~online
  /\ ~effectDue
  /\ NoPass
  /\ syncState = "idle"

\* the step of pass p that ends the replacement of the collection
ReconcileEnds(p) == pass[p].pc = "putall" /\ pass'[p].pc = "refresh"

C25_ReconcileIdempotent ==
  [][\A p \in PassIds : ReconcileEnds(p) =>
       /\ dbEntries' = Merged(pass[p].listing, pass[p].local)
       /\ Merged(pass[p].listing, dbEntries') = dbEntries'
       /\ (pass[p].local = Merged(pass[p].listing, pass[p].local)
             => dbEntries' = pass[p].local)]_vars

\* a reconcile has run on the collection an earlier reconcile against the
\* same listing left, one with a pending entry and a remote one
C25_RanOnMergedSet ==
  \E p \in PassIds : \E id, other \in Ids :
    /\ pass[p].pc = "refresh"
    /\ online
    /\ entries = pass[p].local
    /\ pass[p].local = Merged(pass[p].listing, pass[p].local)
    /\ dbEntries = pass[p].local
    /\ pass[p].local[id].st = "pending"
    /\ pass[p].listing[id] # NoEntry
    /\ pass[p].listing[id].val # pass[p].local[id].val
    /\ pass[p].local[other].st = "synced"

\* the list pass p drains holds the create of entry id and, as the last item
\* of that entry, its delete: created and deleted before any pass sent it
CreatedThenDeleted(p, id) ==
  \E a, b \in 1..Len(pass[p].items) :
    /\ a < b
    /\ pass[p].items[a].entryId = id /\ pass[p].items[a].action = "create"
    /\ pass[p].items[b].entryId = id /\ pass[p].items[b].action = "delete"
    /\ \A c \in 1..Len(pass[p].items) : pass[p].items[c].entryId = id => c <= b

C27_DeletedStaysDeleted ==
  \A i \in dbOutbox : i.action = "delete" => dbEntries[i.entryId] = NoEntry

\* the queued create/update items of an entry
QueuedEdits(id) == {i \in dbOutbox : i.entryId = id /\ i.action # "delete"}

\* the one of them enqueued last
LatestEdit(id) == CHOOSE i \in QueuedEdits(id) : \A j \in QueuedEdits(id) : Pos(j) <= Pos(i)

\* C28: for every entry with a create or update item in the outbox and no
\* delete item, once the handler of the latest edit has enqueued its item,
\* the fields of the Local Store entry are the payload of the item enqueued
\* last for it
C28_StoreShowsLatestEdit ==
  \A id \in Ids :
    (/\ QueuedEdits(id) # {}
     /\ \A i \in dbOutbox : i.entryId = id => i.action # "delete"
     /\ ~(handler.pc = "enqueue" /\ handler.entryId = id))
    => /\ dbEntries[id] # NoEntry
       /\ toPayload(dbEntries[id]) = LatestEdit(id).payload

\* C29: an entry the user has created and queued, and that no pass has sent
\* yet, is in the Local Store as the user wrote it, pending, whenever no
\* reconcile is in the middle of replacing the collection: a reconcile that
\* had read the local entries before the user wrote does not lose the entry
C29_WriteDuringReconcileKept ==
  \A id \in Ids :
    (/\ LastItem(id).action = "create"
     /\ LastItem(id).id \notin okSent
     /\ ~(handler.pc = "enqueue" /\ handler.entryId = id)
     /\ \A p \in PassIds : pass[p].pc # "putall")
    => dbEntries[id] = Entry(LastItem(id).payload, "pending")

\* C30: when a pass that no user action interleaves with ends in idle, the
\* Local Store holds exactly the rows of the remote, each as a synced entry
\* with the fields of the row, and the outbox is empty
C30_IdleMeansInSync ==
  [][\A p \in PassIds :
       (/\ pass[p].pc = "refresh"
        /\ pass'[p].pc = "idle"
        /\ syncState' = "idle"
        /\ handler = IdleHandler)
       => /\ dbOutbox' = {}
          /\ \A id \in Ids :
               dbEntries'[id] = (IF remote'[id] = 0 THEN NoEntry
                                 ELSE Entry(remote'[id], "synced"))]_vars

\* C31: while a pass is in flight the status is syncing, so that a status of
\* idle or offline means that no pass is in flight
C31_StatusMirrorsPass ==
  (\E p \in PassIds : Active(p)) => syncState = "syncing"

\* C32: with passes that do not overlap, the call of an item that succeeds is
\* the first of that item to succeed; once the drain has gone past an item
\* whose call succeeded (to the next item, to a failure, to the end) the item
\* is out of the outbox, so that the next pass does not read it
C32_SucceedsAtMostOnce ==
  /\ [][\A p \in PassIds :
          (pass[p].pc = "call" /\ pass'[p].pc \in {"put", "remove"})
          => CurrentItem(p).id \notin okSent]_vars
  /\ [](\A i \in dbOutbox :
          i.id \in okSent =>
            \E p \in PassIds : /\ pass[p].pc \in {"put", "remove"}
                                /\ CurrentItem(p) = i)

\* a pass failed at a delete after the create queued before it had succeeded:
\* the entry is back in the Local Store, which only the write-back of the
\* create made with the delete already queued does
C32_FailedAfterSuccess ==
  \E p \in PassIds : \E i \in dbOutbox :
    /\ pass[p].failed
    /\ pass[p].pc = "local"
    /\ okSent # {}
    /\ i.action = "delete"
    /\ i.id \notin okSent
    /\ dbEntries[i.entryId] # NoEntry

\* C34: once the user is signed out and every pass in flight at sign-out has
\* ended (no handler being in the middle of an edit either), the Local Store
\* entries and the outbox are empty
C34_SignedOutStoresEmpty ==
  (~token /\ NoPass /\ handler = IdleHandler) =>
     /\ dbEntries = EmptyStore
     /\ dbOutbox = {}

RowsOf(rows, u, id) == {r \in rows : r.user = u /\ r.id = id}

\* C33: after any sequence of create calls the table holds at most one row
\* per account and id; a call leaves under its account and id one row with
\* the fields of the call, and with the createdAt the row had before the
\* call if there was one (so the createdAt of the first call), and leaves
\* the rows of every other account and id as they were
C33_CreateReplayIdempotent ==
  /\ [](\A r1, r2 \in table : (r1.user = r2.user /\ r1.id = r2.id) => r1 = r2)
  /\ [][\A u \in Users, id \in Ids, v \in Vals, now \in Instants :
          PostEntry(u, id, v, now) =>
            /\ Cardinality(RowsOf(table', u, id)) = 1
            /\ \A r \in RowsOf(table', u, id) :
                 /\ r.val = v
                 /\ r.updatedAt = now
                 /\ \A o \in RowsOf(table, u, id) : r.createdAt = o.createdAt
                 /\ RowsOf(table, u, id) = {} => r.createdAt = now
            /\ table' \ RowsOf(table', u, id) = table \ RowsOf(table, u, id)]_vars

\* a create has been replayed with other fields at a later instant, and
\* another account holds a row with the same id
C33_ReplayedCreate ==
  \E r, q \in table :
    /\ r.createdAt < r.updatedAt
    /\ q.id = r.id
    /\ q.user # r.user

\* C35: the listing a reconcile goes on with is the listing of the remote at
\* the time of its list call; a list call the network fails does not return
C35_ListingIsCurrent ==
  [][\A p \in PassIds :
       (pass[p].pc = "fetch" /\ pass'[p].pc = "clear")
       => pass'[p].listing = fetchEntries]_vars

====
